---- MODULE Spec2Model ----
(***************************************************************************)
(* Model of the PIO shift-register WS2812 driver in src/src/lib.rs:        *)
(*   - the PIO program loaded by PioWs2812SRProgram::new, executed one     *)
(*     instruction per state-machine clock cycle,                          *)
(*   - the configuration made by PioWs2812SR::new (pin mapping, joined TX  *)
(*     FIFO, autopull at 8 bits, shift left),                              *)
(*   - PioWs2812SR::write: buffer construction, DMA push, settle timer,    *)
(*   - matrix_transpose, and the clock divider computed by new.            *)
(* A u32 is a function 0..31 -> {0,1}, index 0 the least significant bit,  *)
(* so that shifts lose the bits a 32-bit register loses.  Arrays are       *)
(* functions on 0..n-1, as indexed in the source.                          *)
(***************************************************************************)
EXTENDS Integers, Sequences, FiniteSets, TLC

(* ----------------------------- bounds --------------------------------- *)

\* words the free-running producer of SpecPio pushes in one behaviour
MaxPush == 4

\* largest LED count N the buffer-construction specification draws
MaxLeds == 2

(* ------------------------ 32-bit and 8-bit values ---------------------- *)

Bits32 == 0..31

Pow2(n) == 2^n

\* bit k of the byte v (0 = least significant)
ByteBit(v, k) == (v \div Pow2(k)) % 2

\* `v as u32` for a u8 v
U32OfU8(v) == [k \in Bits32 |-> IF k < 8 THEN ByteBit(v, k) ELSE 0]

\* `v as u8` for a u32 v: the low eight bits
U8OfU32(v) ==
    v[0] + 2 * v[1] + 4 * v[2] + 8 * v[3] + 16 * v[4] + 32 * v[5] + 64 * v[6] + 128 * v[7]

Zero32 == [k \in Bits32 |-> 0]

Shl(v, n) == [k \in Bits32 |-> IF k >= n THEN v[k - n] ELSE 0]

Shr(v, n) == [k \in Bits32 |-> IF k + n <= 31 THEN v[k + n] ELSE 0]

BitAnd(a, b) == [k \in Bits32 |-> a[k] * b[k]]

BitOr(a, b) == [k \in Bits32 |-> IF a[k] + b[k] > 0 THEN 1 ELSE 0]

BitXor(a, b) == [k \in Bits32 |-> (a[k] + b[k]) % 2]

\* the u32 whose bytes are b3 b2 b1 b0, b3 the most significant
Bytes32(b3, b2, b1, b0) ==
    BitOr(BitOr(Shl(U32OfU8(b3), 24), Shl(U32OfU8(b2), 16)),
          BitOr(Shl(U32OfU8(b1), 8), U32OfU8(b0)))

\* a u32 in memory: its four bytes, byte 0 the least significant
MemOfU32(v) ==
    [k \in 0..3 |->
        CASE k = 0 -> U8OfU32(v)
          [] k = 1 -> U8OfU32(Shr(v, 8))
          [] k = 2 -> U8OfU32(Shr(v, 16))
          [] OTHER -> U8OfU32(Shr(v, 24))]

\* the u32 read from memory
U32OfMem(m) == Bytes32(m[3], m[2], m[1], m[0])

\* bits 31..24 of a word in memory, as a byte
TopByte(m) == m[3]

(* --------------------------- matrix_transpose -------------------------- *)

Mask00AA00AA == Bytes32(0, 170, 0, 170)

Mask0000CCCCNarrow == Bytes32(0, 0, 204, 192)

Mask0000CCCC == Bytes32(0, 0, 204, 204)

MaskF0F0F0F0 == Bytes32(240, 240, 240, 240)

Mask0F0F0F0F == Bytes32(15, 15, 15, 15)

\* t = (v ^ (v >> n)) & m;  v = v ^ t ^ (t << n)
SwapStepDropped(v, n, m) == v

SwapStepNoBack(v, n, m) == BitXor(v, BitAnd(BitXor(v, Shr(v, n)), m))

SwapStep(v, n, m) ==
    LET t == BitAnd(BitXor(v, Shr(v, n)), m)
    IN  BitXor(BitXor(v, t), Shl(t, n))

matrix_transpose(a) ==
    LET x0 == Bytes32(a[0], a[1], a[2], a[3])
        y0 == Bytes32(a[4], a[5], a[6], a[7])
        x1 == SwapStep(x0, 7, Mask00AA00AA)
        y1 == SwapStep(y0, 7, Mask00AA00AA)
        x2 == SwapStep(x1, 14, Mask0000CCCC)
        y2 == SwapStep(y1, 14, Mask0000CCCC)
        t  == BitOr(BitAnd(x2, MaskF0F0F0F0), BitAnd(Shr(y2, 4), Mask0F0F0F0F))
        y3 == BitOr(BitAnd(Shl(x2, 4), MaskF0F0F0F0), BitAnd(y2, Mask0F0F0F0F))
        x3 == t
    IN  [k \in 0..7 |->
            CASE k = 0 -> U8OfU32(Shr(x3, 24))
              [] k = 1 -> U8OfU32(Shr(x3, 16))
              [] k = 2 -> U8OfU32(Shr(x3, 8))
              [] k = 3 -> U8OfU32(x3)
              [] k = 4 -> U8OfU32(Shr(y3, 24))
              [] k = 5 -> U8OfU32(Shr(y3, 16))
              [] k = 6 -> U8OfU32(Shr(y3, 8))
              [] OTHER -> U8OfU32(y3)]

(* ------------------------------ state --------------------------------- *)

VARIABLES
    \* PIO state machine (hardware state configured and enabled by new)
    smEnabled,      \* sm.set_enable(true) has run
    smPc,           \* index of the instruction executed next
    x,              \* scratch register X, signed view of the 32-bit register
    osr,            \* output shift register
    osrCount,       \* output shift counter: bits shifted out since the last refill
    fifo,           \* TX FIFO, head first
    pinData, pinClock, pinStrobe,
    stalled,        \* the last cycle could not complete its instruction
    \* observation of the wire
    wire,           \* clock rising edges since the last completed PULL
    sent,           \* word cycles completed (wraps from the last instruction)
    fetched,        \* words moved from the FIFO into the OSR
    osrSrc,         \* which FIFO word the OSR holds (its number), 0 if none
    dataSrc,        \* where the level on the data pin comes from
    pushed,         \* words pushed by the producer, in order
    bytesOut,       \* the bytes shifted out by the completed passes of bitloop1
    cycles,         \* instructions completed since the last wrap
    cycleLen,       \* instructions the last completed word cycle took
    \* driver: const generics, write's locals, DMA channel, timer
    constructed, C, N, colors, wpc, led, grb, chan, idx,
    words, word_index, written, dmaIdx, timer, sinceDma, wlog,
    \* calls of the pure functions: matrix_transpose, and new's clock setting
    mtIn, mtOut, mtBack, sys_hz, clock_divider, fnPc

smVars == <<smEnabled, smPc, x, osr, osrCount, fifo, pinData, pinClock, pinStrobe, stalled>>

obsVars == <<wire, sent, fetched, osrSrc, dataSrc, pushed, bytesOut, cycles, cycleLen>>

buildVars == <<colors, led, grb, chan, idx, words, word_index, written>>

drvVars == <<constructed, C, N, wpc, dmaIdx, timer, sinceDma, wlog>>

fnVars == <<mtIn, mtOut, mtBack, sys_hz, clock_divider, fnPc>>

vars == <<smVars, obsVars, buildVars, drvVars, fnVars>>

(* --------------------------- the PIO program --------------------------- *)

NoSide == 0 - 1

\* the assembled program: .side_set 2 opt, labels resolved to addresses
ProgramShortLoop ==
    [pc \in 0..9 |->
        CASE pc = 0 -> [op |-> "set_x",     arg |-> 7, side |-> 2]
          [] pc = 1 -> [op |-> "pull",      arg |-> 0, side |-> NoSide]
          [] pc = 2 -> [op |-> "set_pins",  arg |-> 1, side |-> 0]
          [] pc = 3 -> [op |-> "jmp_x_dec", arg |-> 2, side |-> 1]
          [] pc = 4 -> [op |-> "set_x",     arg |-> 6, side |-> 2]
          [] pc = 5 -> [op |-> "out_pins",  arg |-> 1, side |-> 0]
          [] pc = 6 -> [op |-> "jmp_x_dec", arg |-> 5, side |-> 1]
          [] pc = 7 -> [op |-> "set_x",     arg |-> 7, side |-> 2]
          [] pc = 8 -> [op |-> "set_pins",  arg |-> 0, side |-> 0]
          [] OTHER  -> [op |-> "jmp_x_dec", arg |-> 8, side |-> 1]]

\* the program with the instruction at one address replaced
ProgramPatched(at, instr) ==
    [pc \in 0..9 |->
        IF pc = at THEN instr ELSE
        CASE pc = 0 -> [op |-> "set_x",     arg |-> 7, side |-> 2]
          [] pc = 1 -> [op |-> "pull",      arg |-> 0, side |-> NoSide]
          [] pc = 2 -> [op |-> "set_pins",  arg |-> 1, side |-> 0]
          [] pc = 3 -> [op |-> "jmp_x_dec", arg |-> 2, side |-> 1]
          [] pc = 4 -> [op |-> "set_x",     arg |-> 7, side |-> 2]
          [] pc = 5 -> [op |-> "out_pins",  arg |-> 1, side |-> 0]
          [] pc = 6 -> [op |-> "jmp_x_dec", arg |-> 5, side |-> 1]
          [] pc = 7 -> [op |-> "set_x",     arg |-> 7, side |-> 2]
          [] pc = 8 -> [op |-> "set_pins",  arg |-> 0, side |-> 0]
          [] OTHER  -> [op |-> "jmp_x_dec", arg |-> 8, side |-> 1]]

\* the second reload of x without its side-set
ProgramQuietReload == ProgramPatched(7, [op |-> "set_x", arg |-> 7, side |-> NoSide])

\* bitloop2 forcing the data pin high
ProgramIdleHigh == ProgramPatched(8, [op |-> "set_pins", arg |-> 1, side |-> 0])

\* the first reload of x raising clock and strobe together
ProgramStrobeWithClock == ProgramPatched(4, [op |-> "set_x", arg |-> 7, side |-> 3])

\* bitloop0 counting one bit more
ProgramLongLoop == ProgramPatched(0, [op |-> "set_x", arg |-> 8, side |-> 2])

Program ==
    [pc \in 0..9 |->
        CASE pc = 0 -> [op |-> "set_x",     arg |-> 7, side |-> 2]
          [] pc = 1 -> [op |-> "pull",      arg |-> 0, side |-> NoSide]
          [] pc = 2 -> [op |-> "set_pins",  arg |-> 1, side |-> 0]
          [] pc = 3 -> [op |-> "jmp_x_dec", arg |-> 2, side |-> 1]
          [] pc = 4 -> [op |-> "set_x",     arg |-> 7, side |-> 2]
          [] pc = 5 -> [op |-> "out_pins",  arg |-> 1, side |-> 0]
          [] pc = 6 -> [op |-> "jmp_x_dec", arg |-> 5, side |-> 1]
          [] pc = 7 -> [op |-> "set_x",     arg |-> 7, side |-> 2]
          [] pc = 8 -> [op |-> "set_pins",  arg |-> 0, side |-> 0]
          [] OTHER  -> [op |-> "jmp_x_dec", arg |-> 8, side |-> 1]]

\* .wrap_target and .wrap
WrapTarget == 0

WrapTop == 9

\* the loop an instruction address belongs to (bitloop0/1/2), 3 outside the loops
LoopOf(pc) ==
    CASE pc \in {2, 3} -> 0
      [] pc \in {5, 6} -> 1
      [] pc \in {8, 9} -> 2
      [] OTHER -> 3

(* ------------------------ configuration made by new -------------------- *)

\* FifoJoin::TxOnly: the RX FIFO's four entries are added to the TX FIFO's four
FifoDepth == 8

\* cfg.shift_out.auto_fill
AutoFill == TRUE

\* cfg.shift_out.threshold
PullThreshUnderrun == 8 - 1

PullThreshWord == 4 * 8

PullThresh == 8

\* cfg.shift_out.direction = ShiftDirection::Left
ShiftLeft == TRUE

\* pull: `pull` assembles to `pull block`
PullNoBlock == FALSE

PullBlocks == TRUE

(* ----------------------- one state-machine cycle ------------------------ *)

Instr == Program[smPc]

NextPc(pc) == IF pc = WrapTop THEN WrapTarget ELSE pc + 1

\* side-set drives clock (bit 0) and strobe (bit 1); it wins over SET and OUT
\* writes to the same pins; `set pins` covers data, clock, strobe (bits 0, 1, 2)
SideClock(side, other) == IF side = NoSide THEN other ELSE side % 2

SideStrobe(side, other) == IF side = NoSide THEN other ELSE (side \div 2) % 2

\* the OSR is exhausted: the shift counter has reached the threshold
OsrEmpty == osrCount >= PullThresh

\* time passes for the DMA channel and the timer while the state machine
\* executes one cycle (defined with the driver below)
\* Timer::after_micros(55)
SettleMicrosShort == 55 \div 11

SettleMicrosOffByOne == 55 - 1

SettleMicros == 55

\* state-machine clock in kHz: clk_sys / (clk_sys / (800 * 52))
SmKHz == 800 * 52

\* the settle delay in state-machine cycles
SettleCycles == (SettleMicros * SmKHz) \div 1000

\* words[] has 8 * N * 3 entries
BufLenShort(n) == 8 * n * 3 - 1

BufLen(n) == 8 * n * 3

\* cycles a resumption of the task may lag behind the event that wakes it
MaxLatency == 1

DmaDone == wpc = "await_dma" /\ dmaIdx = BufLen(N)

CanTick == ~(DmaDone /\ sinceDma >= MaxLatency)

Tick ==
    /\ CanTick
    /\ timer' = IF wpc = "settle" /\ timer > 0 THEN timer - 1 ELSE timer
    /\ sinceDma' = IF wpc \in {"await_dma", "settle"} /\ dmaIdx = BufLen(N)
                      /\ sinceDma < SettleCycles
                   THEN sinceDma + 1 ELSE sinceDma
    /\ UNCHANGED <<constructed, C, N, wpc, dmaIdx, wlog, buildVars, pushed, fnVars>>

\* a rising clock edge appends what the wire carries to the record
Edge(clk, data, src) ==
    IF pinClock = 0 /\ clk = 1
    THEN Append(wire, [loop |-> LoopOf(smPc), data |-> data, x |-> x,
                       src |-> src.src, pos |-> src.pos])
    ELSE wire

\* autopull on a cycle that executes no OUT: refill an exhausted OSR
Refill == AutoFill /\ OsrEmpty /\ fifo # <<>>

RefillOsr ==
    IF Refill
    THEN /\ osr' = Head(fifo)
         /\ osrCount' = 0
         /\ fifo' = Tail(fifo)
         /\ fetched' = fetched + 1
         /\ osrSrc' = fetched + 1
    ELSE UNCHANGED <<osr, osrCount, fifo, fetched, osrSrc>>

\* set x, <arg>
SmSetX ==
    /\ smEnabled /\ Instr.op = "set_x"
    /\ Tick
    /\ x' = Instr.arg
    /\ RefillOsr
    /\ pinClock' = SideClock(Instr.side, pinClock)
    /\ pinStrobe' = SideStrobe(Instr.side, pinStrobe)
    /\ wire' = Edge(pinClock', pinData, dataSrc)
    /\ smPc' = NextPc(smPc)
    /\ stalled' = FALSE
    /\ cycles' = cycles + 1
    /\ UNCHANGED <<smEnabled, pinData, dataSrc, sent, bytesOut, cycleLen>>

\* pull: with autopull a no-op when the OSR is full; otherwise it takes the
\* head of the FIFO, and blocks while the FIFO is empty
SmPull ==
    /\ smEnabled /\ Instr.op = "pull"
    /\ Tick
    /\ pinClock' = SideClock(Instr.side, pinClock)
    /\ pinStrobe' = SideStrobe(Instr.side, pinStrobe)
    /\ IF AutoFill /\ ~OsrEmpty
       THEN /\ UNCHANGED <<osr, osrCount, fifo, fetched, osrSrc>>
            /\ smPc' = NextPc(smPc) /\ stalled' = FALSE /\ wire' = <<>>
       ELSE IF fifo # <<>>
       THEN /\ osr' = Head(fifo) /\ osrCount' = 0 /\ fifo' = Tail(fifo)
            /\ fetched' = fetched + 1 /\ osrSrc' = fetched + 1
            /\ smPc' = NextPc(smPc) /\ stalled' = FALSE /\ wire' = <<>>
       ELSE IF PullBlocks
       THEN /\ UNCHANGED <<osr, osrCount, fifo, fetched, osrSrc>>
            /\ smPc' = smPc /\ stalled' = TRUE
            /\ wire' = Edge(pinClock', pinData, dataSrc)
       ELSE \* pull noblock on an empty FIFO copies X into the OSR
            /\ osr' = [k \in Bits32 |-> IF x < 0 THEN 1 ELSE IF k < 8 THEN ByteBit(x, k) ELSE 0]
            /\ osrCount' = 0 /\ osrSrc' = 0
            /\ UNCHANGED <<fifo, fetched>>
            /\ smPc' = NextPc(smPc) /\ stalled' = FALSE /\ wire' = <<>>
    /\ cycles' = IF stalled' THEN cycles ELSE cycles + 1
    /\ UNCHANGED <<smEnabled, x, pinData, dataSrc, sent, bytesOut, cycleLen>>

\* set pins, <arg>
SmSetPins ==
    /\ smEnabled /\ Instr.op = "set_pins"
    /\ Tick
    /\ RefillOsr
    /\ pinData' = Instr.arg % 2
    /\ pinClock' = SideClock(Instr.side, (Instr.arg \div 2) % 2)
    /\ pinStrobe' = SideStrobe(Instr.side, (Instr.arg \div 4) % 2)
    /\ dataSrc' = [src |-> 0, pos |-> 0]
    /\ wire' = Edge(pinClock', pinData', dataSrc')
    /\ smPc' = NextPc(smPc)
    /\ stalled' = FALSE
    /\ cycles' = cycles + 1
    /\ UNCHANGED <<smEnabled, x, sent, bytesOut, cycleLen>>

\* the byte the receiver clocks in during bitloop1: the data levels at its
\* rising clock edges, first edge most significant
RECURSIVE BitsValue(_)
BitsValue(bits) ==
    IF bits = <<>> THEN 0
    ELSE 2 * BitsValue(SubSeq(bits, 1, Len(bits) - 1)) + bits[Len(bits)]

IsLoop1(e) == e.loop = 1

ByteOfEdges(w) == BitsValue([k \in 1..Len(SelectSeq(w, IsLoop1)) |-> SelectSeq(w, IsLoop1)[k].data])

\* jmp x--, <arg>: branch when X is non-zero before the decrement, which is
\* made in either case
SmJmp ==
    /\ smEnabled /\ Instr.op = "jmp_x_dec"
    /\ Tick
    /\ RefillOsr
    /\ x' = x - 1
    /\ pinClock' = SideClock(Instr.side, pinClock)
    /\ pinStrobe' = SideStrobe(Instr.side, pinStrobe)
    /\ wire' = Edge(pinClock', pinData, dataSrc)
    /\ smPc' = IF x # 0 THEN Instr.arg ELSE NextPc(smPc)
    /\ sent' = IF x = 0 /\ smPc = WrapTop THEN sent + 1 ELSE sent
    /\ bytesOut' = IF x = 0 /\ LoopOf(smPc) = 1
                   THEN Append(bytesOut, ByteOfEdges(wire'))
                   ELSE bytesOut
    /\ cycles' = IF x = 0 /\ smPc = WrapTop THEN 0 ELSE cycles + 1
    /\ cycleLen' = IF x = 0 /\ smPc = WrapTop THEN cycles + 1 ELSE cycleLen
    /\ stalled' = FALSE
    /\ UNCHANGED <<smEnabled, pinData, dataSrc>>

\* out pins, 1: stalls on an exhausted OSR (autopull refilling it meanwhile);
\* otherwise shifts one bit onto the data pin, and refills when the count
\* reaches the threshold
SmOut ==
    /\ smEnabled /\ Instr.op = "out_pins"
    /\ Tick
    /\ pinClock' = SideClock(Instr.side, pinClock)
    /\ pinStrobe' = SideStrobe(Instr.side, pinStrobe)
    /\ IF AutoFill /\ OsrEmpty
       THEN /\ RefillOsr
            /\ smPc' = smPc /\ stalled' = TRUE
            /\ UNCHANGED <<pinData, dataSrc>>
            /\ wire' = Edge(pinClock', pinData, dataSrc)
       ELSE LET bit == IF ShiftLeft THEN osr[31] ELSE osr[0]
                shifted == IF ShiftLeft THEN Shl(osr, 1) ELSE Shr(osr, 1)
                count == IF osrCount + 1 > 32 THEN 32 ELSE osrCount + 1
            IN  /\ pinData' = bit
                /\ dataSrc' = [src |-> osrSrc, pos |-> osrCount]
                /\ IF AutoFill /\ count >= PullThresh /\ fifo # <<>>
                   THEN /\ osr' = Head(fifo) /\ osrCount' = 0 /\ fifo' = Tail(fifo)
                        /\ fetched' = fetched + 1 /\ osrSrc' = fetched + 1
                   ELSE /\ osr' = shifted /\ osrCount' = count
                        /\ UNCHANGED <<fifo, fetched, osrSrc>>
                /\ smPc' = NextPc(smPc) /\ stalled' = FALSE
                /\ wire' = Edge(pinClock', pinData', dataSrc')
    /\ cycles' = IF stalled' THEN cycles ELSE cycles + 1
    /\ UNCHANGED <<smEnabled, x, sent, bytesOut, cycleLen>>

(* ----------------------- free-running producer ------------------------- *)

\* words a producer may push: top bytes 0xA5, 0x5A, and low bits that are set
ProducerWords == {Bytes32(165, 255, 0, 1), Bytes32(90, 0, 0, 0)}

\* a write of one word to the TX FIFO, possible while the FIFO is not full
ProducerPush(w) ==
    /\ smEnabled
    /\ Len(pushed) < MaxPush
    /\ Len(fifo) < FifoDepth
    /\ fifo' = Append(fifo, w)
    /\ pushed' = Append(pushed, w)
    /\ UNCHANGED <<smEnabled, smPc, x, osr, osrCount, pinData, pinClock, pinStrobe, stalled>>
    /\ UNCHANGED <<wire, sent, fetched, osrSrc, dataSrc, bytesOut, cycles, cycleLen>>
    /\ UNCHANGED <<buildVars, drvVars, fnVars>>

\* the state machine as new leaves it: enabled at the first instruction, the
\* OSR exhausted, the pins low, the FIFO empty
SmReset ==
    /\ smPc = WrapTarget /\ x = 0 /\ osr = Zero32 /\ osrCount = 32 /\ fifo = <<>>
    /\ pinData = 0 /\ pinClock = 0 /\ pinStrobe = 0 /\ stalled = FALSE
    /\ wire = <<>> /\ sent = 0 /\ fetched = 0 /\ osrSrc = 0
    /\ dataSrc = [src |-> 0, pos |-> 0] /\ pushed = <<>>
    /\ bytesOut = <<>> /\ cycles = 0 /\ cycleLen = 0

\* no call of a pure function is under way
FnIdle ==
    /\ mtIn = <<>> /\ mtOut = <<>> /\ mtBack = <<>>
    /\ sys_hz = 0 /\ clock_divider = 0 /\ fnPc = "idle"

WriteIdle ==
    /\ wpc = "idle" /\ led = 0 /\ grb = <<>> /\ chan = 0 /\ idx = 0
    /\ words = <<>> /\ word_index = 0 /\ written = <<>> /\ dmaIdx = 0
    /\ timer = 0 /\ sinceDma = 0 /\ wlog = <<>>

InitPio ==
    /\ SmReset /\ WriteIdle /\ FnIdle
    /\ smEnabled = TRUE /\ constructed = TRUE /\ C = 1 /\ N = 1
    /\ colors = <<>>

SmStep == SmSetX \/ SmPull \/ SmSetPins \/ SmJmp \/ SmOut

NextPio == SmStep \/ \E w \in ProducerWords : ProducerPush(w)

SpecPio == InitPio /\ [][NextPio]_vars

(* ------------------------------- C1 ------------------------------------ *)

\* the word whose cycle the record `wire` belongs to: the cycle just completed
\* while the program is in HEADER or at PULL, the running one otherwise
CycleWordNo == IF smPc \in {0, 1} THEN sent ELSE sent + 1

\* the n-th rising edge of a word cycle for the word w
ExpectedEdge(n, w) ==
    [loop |-> (n - 1) \div 8,
     x    |-> 7 - ((n - 1) % 8),
     data |-> CASE n <= 8  -> 1
                [] n <= 16 -> w[31 - (n - 9)]
                [] OTHER   -> 0]

EdgeSeen(n) == [loop |-> wire[n].loop, x |-> wire[n].x, data |-> wire[n].data]

\* C1: every word cycle puts exactly 24 rising clock edges on the wire before
\* the program is back in HEADER: 8 with data = 1 in bitloop0, 8 carrying bits
\* 31..24 of the fetched word, most significant first, in bitloop1, 8 with
\* data = 0 in bitloop2, each loop counting x from 7 down to 0.
C1_WordFraming ==
    /\ Len(wire) <= 24
    /\ (smPc \in {0, 1} /\ sent > 0) => Len(wire) = 24
    /\ wire # <<>> =>
         /\ CycleWordNo \in 1..Len(pushed)
         /\ \A n \in 1..Len(wire) : EdgeSeen(n) = ExpectedEdge(n, pushed[CycleWordNo])

C1_Witness ==
    /\ smPc = 0 /\ sent = 2 /\ Len(wire) = 24
    /\ pushed[1] = Bytes32(90, 0, 0, 0)
    /\ pushed[2] = Bytes32(165, 255, 0, 1)

(* ------------------------------- C2 ------------------------------------ *)

\* C2: under every interleaving of pushes and instruction cycles the state
\* machine stalls only at the PULL instruction, with the clock low, and every
\* bit clocked out in bitloop1 is a bit of a word that was pushed.
C2_StallsOnlyAtPull ==
    /\ stalled => (Instr.op = "pull" /\ pinClock = 0)
    /\ \A n \in 1..Len(wire) :
          wire[n].loop = 1 =>
             /\ wire[n].src \in 1..Len(pushed)
             /\ wire[n].pos \in 0..7
             /\ wire[n].data = pushed[wire[n].src][31 - wire[n].pos]

C2_Witness ==
    /\ stalled /\ sent = 2 /\ Len(pushed) = 2 /\ fifo = <<>>
    /\ Len(wire) = 24 /\ wire[9].data # wire[10].data

(* ------------------------------ the driver ----------------------------- *)

\* entries of the lane arrays r, g, b: `let mut r = [0, 0, 0, 0, 0, 0, 0, 0]`
LaneSlots == 8

\* r[7 - c] = colors[c][i].r
LaneSlotForward(c) == c

LaneSlot(c) == 7 - c

\* let colors = [g, r, b]
ChannelOrderRgb == <<"r", "g", "b">>

ChannelOrder == <<"g", "r", "b">>

\* let word = (i as u32) << 24
PlaneWordLow(byte) == U32OfU8(byte)

PlaneWord(byte) == Shl(U32OfU8(byte), 24)

\* pixels the frames are made of: the (R=1, G=2, B=4) of the ordering example,
\* and values with mixed bits
PixelSet ==
    {[r |-> 1, g |-> 2, b |-> 4], [r |-> 165, g |-> 60, b |-> 255], [r |-> 128, g |-> 126, b |-> 129]}

BackPixels == {[r |-> 0, g |-> 0, b |-> 0], [r |-> 255, g |-> 90, b |-> 1]}

\* frames of one pixel value throughout
UniformFrames(lanes, leds) ==
    { [c \in 0..lanes - 1 |-> [i \in 0..leds - 1 |-> px]] : px \in BackPixels }

\* frames &[[RGB8; N]; C] with one pixel of PixelSet among pixels of one
\* background value
Frames(lanes, leds) ==
    { [c \in 0..lanes - 1 |-> [i \in 0..leds - 1 |-> IF c = sc /\ i = si THEN pa ELSE pb]] :
        sc \in 0..lanes - 1, si \in 0..leds - 1, pa \in PixelSet, pb \in BackPixels }

\* PioWs2812SR::new: configures and enables the state machine; C is not checked
New ==
    /\ ~constructed
    /\ constructed' = TRUE
    /\ smEnabled' = TRUE
    /\ UNCHANGED <<smPc, x, osr, osrCount, fifo, pinData, pinClock, pinStrobe, stalled>>
    /\ UNCHANGED <<obsVars, buildVars, fnVars, C, N, wpc, dmaIdx, timer, sinceDma, wlog>>

\* write is called on the caller's frame `colors`: `words = [0u32; 8*N*3]`,
\* `word_index = 0`, first LED
WriteStart ==
    /\ constructed /\ wpc \in {"idle", "done"}
    /\ UNCHANGED colors
    /\ words' = [k \in 0..BufLen(N) - 1 |-> MemOfU32(Zero32)]
    /\ written' = [k \in 0..BufLen(N) - 1 |-> 0]
    /\ word_index' = 0
    /\ led' = 0 /\ grb' = <<>> /\ chan' = 0 /\ idx' = 0
    /\ wpc' = "lanes"
    /\ dmaIdx' = 0 /\ timer' = 0 /\ sinceDma' = 0 /\ wlog' = <<>>
    /\ sent' = 0 /\ fetched' = 0 /\ bytesOut' = <<>>
    /\ UNCHANGED <<smVars, wire, osrSrc, dataSrc, pushed, cycles, cycleLen, constructed, C, N>>
    /\ UNCHANGED fnVars

\* the lane array of one channel for LED `led`: zeros, then for c in 0..C the
\* assignment to slot LaneSlot(c), a later lane overwriting an earlier one
LaneArray(ch) ==
    [k \in 0..LaneSlots - 1 |->
        LET hit == {c \in 0..C - 1 : LaneSlot(c) = k}
        IN  IF hit = {} THEN 0
            ELSE colors[CHOOSE c \in hit : \A d \in hit : d <= c][led][ch]]

\* an assignment of the lane loops indexes outside the array: the task panics
LanePanics == \E c \in 0..C - 1 : LaneSlot(c) \notin 0..LaneSlots - 1

\* one iteration of `for i in 0..N` up to `let colors = [g, r, b]`
WriteLanes ==
    /\ wpc = "lanes"
    /\ IF LanePanics
       THEN /\ wpc' = "panicked"
            /\ UNCHANGED <<grb, chan, idx>>
       ELSE /\ grb' = [k \in 0..2 |-> matrix_transpose(LaneArray(ChannelOrder[k + 1]))]
            /\ chan' = 0 /\ idx' = 0
            /\ wpc' = "store"
    /\ UNCHANGED <<colors, led, words, word_index, written>>
    /\ UNCHANGED <<smVars, obsVars, fnVars, constructed, C, N, dmaIdx, timer, sinceDma, wlog>>

\* one iteration of `for c in colors { for i in c { ... } }`
WriteStore ==
    /\ wpc = "store"
    /\ IF word_index \notin DOMAIN words
       THEN /\ wpc' = "panicked"
            /\ UNCHANGED <<words, word_index, written, led, chan, idx, wlog>>
       ELSE /\ words' = [words EXCEPT ![word_index] = MemOfU32(PlaneWord(grb[chan][idx]))]
            /\ written' = [written EXCEPT ![word_index] = @ + 1]
            /\ word_index' = word_index + 1
            /\ IF idx < 7
               THEN /\ idx' = idx + 1
                    /\ UNCHANGED <<chan, led, wpc, wlog>>
               ELSE IF chan < 2
               THEN /\ idx' = 0 /\ chan' = chan + 1
                    /\ UNCHANGED <<led, wpc, wlog>>
               ELSE IF led + 1 < N
               THEN /\ led' = led + 1 /\ wpc' = "lanes"
                    /\ UNCHANGED <<chan, idx, wlog>>
               ELSE /\ wpc' = "push" /\ wlog' = Append(wlog, "build")
                    /\ UNCHANGED <<chan, idx, led>>
    /\ UNCHANGED <<colors, grb>>
    /\ UNCHANGED <<smVars, obsVars, fnVars, constructed, C, N, dmaIdx, timer, sinceDma>>

\* self.sm.tx().dma_push(self.dma.reborrow(), &words).await: the transfer is
\* set up and the task suspends
WriteDmaPush ==
    /\ wpc = "push"
    /\ wpc' = "await_dma"
    /\ dmaIdx' = 0
    /\ wlog' = wlog \o <<"dma_push", "suspend_dma">>
    /\ UNCHANGED <<smVars, obsVars, buildVars, fnVars, constructed, C, N, timer, sinceDma>>

\* the DMA channel writes the next word of the buffer to the TX FIFO, paced by
\* the FIFO's data request (room in the FIFO)
DmaTransfer ==
    /\ wpc = "await_dma"
    /\ dmaIdx < BufLen(N)
    /\ Len(fifo) < FifoDepth
    /\ fifo' = Append(fifo, U32OfMem(words[dmaIdx]))
    /\ dmaIdx' = dmaIdx + 1
    /\ sinceDma' = 0
    /\ UNCHANGED <<smEnabled, smPc, x, osr, osrCount, pinData, pinClock, pinStrobe, stalled>>
    /\ UNCHANGED <<obsVars, buildVars, fnVars, constructed, C, N, wpc, timer, wlog>>

\* the transfer is complete: the task resumes, starts the timer and suspends
DmaWake ==
    /\ DmaDone
    /\ wpc' = "settle"
    /\ timer' = SettleCycles
    /\ wlog' = wlog \o <<"resume_dma", "suspend_timer">>
    /\ UNCHANGED <<smVars, obsVars, buildVars, fnVars, constructed, C, N, dmaIdx, sinceDma>>

\* the timer has expired: the task resumes and write returns
TimerWake ==
    /\ wpc = "settle" /\ timer = 0
    /\ wpc' = "done"
    /\ wlog' = wlog \o <<"resume_timer", "return">>
    /\ UNCHANGED <<smVars, obsVars, buildVars, fnVars, constructed, C, N, dmaIdx, timer, sinceDma>>

DriverIdle ==
    /\ SmReset /\ WriteIdle /\ FnIdle
    /\ smEnabled = FALSE /\ constructed = FALSE

\* buffer construction: every lane count up to one past the lane array, every
\* LED count up to MaxLeds
InitBuild ==
    /\ DriverIdle
    /\ C \in 1..LaneSlots + 1
    /\ N \in 1..MaxLeds
    /\ colors \in Frames(C, N)

NextBuild ==
    \/ New
    \/ WriteStart
    \/ WriteLanes
    \/ WriteStore
    \/ WriteDmaPush

SpecBuild == InitBuild /\ [][NextBuild]_vars

\* LED count of the transmission specification
XmitLeds == 1

\* transmission: the state machine and the DMA channel running beside write,
\* on a frame of one pixel value in every lane
Init ==
    /\ DriverIdle
    /\ C = LaneSlots
    /\ N \in 1..XmitLeds
    /\ colors \in UniformFrames(C, N)

Next ==
    \/ New
    \/ WriteStart
    \/ WriteLanes
    \/ WriteStore
    \/ WriteDmaPush
    \/ DmaTransfer
    \/ DmaWake
    \/ TimerWake
    \/ SmSetX
    \/ SmPull
    \/ SmSetPins
    \/ SmJmp
    \/ SmOut

Spec == Init /\ [][Next]_vars

(* --------------------- what the claims speak of ------------------------ *)

\* channel k of (G, R, B) of a pixel
ChanValue(px, k) == CASE k = 0 -> px.g [] k = 1 -> px.r [] OTHER -> px.b

\* the bit-plane byte of the data model: bit c is bit p of lane c's channel
\* value, 0 for c >= C
PlaneByte(i, k, p) ==
    LET sum[c \in 0..8] ==
            IF c = 0 THEN 0
            ELSE sum[c - 1] +
                 (IF c - 1 < C THEN ByteBit(ChanValue(colors[c - 1][i], k), p) * Pow2(c - 1)
                  ELSE 0)
    IN  sum[8]

\* slots of the buffer filled so far, as (LED, channel, position) triples
Filled ==
    {t \in (0..N - 1) \X (0..2) \X (0..7) : 24 * t[1] + 8 * t[2] + t[3] < word_index}

\* the buffer is complete and in the hands of write's later steps
Built == wpc \in {"push", "await_dma", "settle", "done"}

(* ------------------------------- C3 ------------------------------------ *)

\* C3: in the top byte of the word built for LED i, channel ch and plane p,
\* bit c is bit p of colors[c][i].ch for every lane c < C, and 0 for c >= C.
C3_PlaneBits ==
    \A t \in Filled :
        LET i == t[1]
            k == t[2]
            p == 7 - t[3]
            top == TopByte(words[24 * i + 8 * k + (7 - p)])
        IN  \A c \in 0..7 :
                ByteBit(top, c) =
                    IF c < C THEN ByteBit(ChanValue(colors[c][i], k), p) ELSE 0

C3_Witness ==
    /\ wpc = "push" /\ C = 3 /\ N = 2
    /\ colors[1][1] = [r |-> 165, g |-> 60, b |-> 255]
    /\ colors[0][0] = [r |-> 255, g |-> 90, b |-> 1]
    /\ TopByte(words[24 + 8 + 1]) = 5

(* ------------------------------- C4 ------------------------------------ *)

\* C4: the buffer is LED-major, then channel in the order green, red, blue,
\* then bit-plane descending: the word at 24*i + 8*k + j is the plane 7-j word
\* of channel k of (G, R, B) of LED i.
C4_BufferOrder ==
    \A i \in 0..N - 1 : \A k \in 0..2 : \A j \in 0..7 :
        24 * i + 8 * k + j < word_index =>
            words[24 * i + 8 * k + j] =
                [b \in 0..3 |-> IF b = 3 THEN PlaneByte(i, k, 7 - j) ELSE 0]

C4_Witness ==
    /\ wpc = "push" /\ C = 2 /\ N = 2
    /\ colors[1][1] = [r |-> 1, g |-> 2, b |-> 4]
    /\ colors[0][0] = [r |-> 0, g |-> 0, b |-> 0]
    /\ TopByte(words[24 + 6]) = 2 /\ TopByte(words[24 + 8 + 7]) = 2
    /\ TopByte(words[24 + 16 + 5]) = 2

(* ------------------------------- C5 ------------------------------------ *)

\* the steps of write, in order
WriteSteps ==
    <<"build", "dma_push", "suspend_dma", "resume_dma", "suspend_timer", "resume_timer", "return">>

\* C5: write builds the complete 24*N-word buffer, hands it to the DMA
\* channel, suspends until the DMA reports completion, suspends for the 55
\* microsecond settle delay and returns, in this order, suspending at these
\* two points only; it returns no sooner than 55 microseconds (2288 cycles of
\* the 41.6 MHz state-machine clock) after the DMA completed.
C5_WriteOrder ==
    /\ Len(wlog) <= Len(WriteSteps)
    /\ \A n \in 1..Len(wlog) : wlog[n] = WriteSteps[n]
    /\ wpc \in {"await_dma", "settle", "done"} =>
          /\ word_index = 24 * N
          /\ \A s \in 0..24 * N - 1 : written[s] = 1
    /\ wpc = "settle" => dmaIdx = 24 * N
    /\ wpc = "done" =>
          /\ wlog = WriteSteps
          /\ dmaIdx = 24 * N
          /\ sinceDma >= 2288

C5_Witness == wpc = "done" /\ wlog = WriteSteps /\ sinceDma = 2288 /\ N = 1

(* ------------------------------- C6 ------------------------------------ *)

\* C6: when write returns all 24*N words have been shifted onto the wire: the
\* TX FIFO and the OSR are empty, the last word's bitloop2 is finished and the
\* state machine is stalled at PULL.
C6_SentAtReturn ==
    wpc = "done" =>
        /\ fifo = <<>>
        /\ OsrEmpty
        /\ fetched = 24 * N
        /\ sent = 24 * N
        /\ Len(wire) = 24
        /\ stalled /\ Instr.op = "pull"

C6_Witness ==
    /\ wpc = "done" /\ sent = 24 /\ stalled /\ fifo = <<>>
    /\ colors[0][0] = [r |-> 255, g |-> 90, b |-> 1]

\* the FIFO is full when the DMA completes: nine words are still to be sent
FullAtCompletion == DmaDone /\ Len(fifo) = FifoDepth

(* ------------------------------- C7 ------------------------------------ *)

\* C7: a lane count above 8 is rejected by new: no driver with C = 9 is ever
\* constructed, and none reaches write.
C7_NineLanesRejected ==
    /\ constructed => C <= 8
    /\ wpc # "idle" => C <= 8

(* ------------------------------- C8 ------------------------------------ *)

\* C8 as stated: with one lane the top byte of the plane-p word is
\* ((value >> p) & 1) << 7, lane 0 in the most significant bit.
C8_LaneZeroInTopBit ==
    C = 1 =>
        \A t \in Filled :
            TopByte(words[24 * t[1] + 8 * t[2] + t[3]]) =
                ByteBit(ChanValue(colors[0][t[1]], t[2]), 7 - t[3]) * 128

\* C8 as the code has it: with one lane the top byte of the plane-p word is
\* (value >> p) & 1, lane 0 in the least significant bit; for N = 1 and lane
\* 0 = (R=1, G=2, B=4) the 24 top bytes are G: 0,0,0,0,0,0,1,0,
\* R: 0,0,0,0,0,0,0,1, B: 0,0,0,0,0,1,0,0.
C8_LaneZeroInLowBit ==
    /\ C = 1 =>
         \A t \in Filled :
             TopByte(words[24 * t[1] + 8 * t[2] + t[3]]) =
                 ByteBit(ChanValue(colors[0][t[1]], t[2]), 7 - t[3])
    /\ (C = 1 /\ N = 1 /\ Built /\ colors[0][0] = [r |-> 1, g |-> 2, b |-> 4]) =>
         [s \in 0..23 |-> TopByte(words[s])] =
             [s \in 0..23 |-> IF s \in {6, 8 + 7, 16 + 5} THEN 1 ELSE 0]

C8_Witness ==
    /\ C = 1 /\ N = 1 /\ wpc = "push"
    /\ colors[0][0] = [r |-> 1, g |-> 2, b |-> 4]
    /\ TopByte(words[6]) = 1

(* ------------------------------- C9 ------------------------------------ *)

\* C9: for every valid N and C write fills exactly 24*N words: word_index
\* starts at 0 and counts the stored words, no store falls outside the array,
\* every slot below word_index has been written exactly once and no other,
\* and word_index is 24*N when the DMA push starts.
C9_ExactlyFilled ==
    C <= 8 =>
        /\ wpc # "panicked"
        /\ wpc \notin {"idle"} =>
             /\ DOMAIN words = 0..24 * N - 1
             /\ word_index \in 0..24 * N
             /\ \A s \in DOMAIN written : written[s] = IF s < word_index THEN 1 ELSE 0
        /\ wpc = "lanes" => word_index = 24 * led
        /\ Built => word_index = 24 * N

C9_Witness == wpc = "await_dma" /\ N = 2 /\ C = 8 /\ word_index = 48 /\ written[47] = 1

(* ------------------------------- C10 ----------------------------------- *)

\* C10: every word handed to the DMA has bits 23..0 equal to 0 (bytes 0, 1
\* and 2 of the word in memory).
C10_LowBitsZero ==
    \A s \in DOMAIN words :
        s < word_index => \A b \in 0..2 : words[s][b] = 0

C10_Witness ==
    /\ wpc = "await_dma" /\ C = 8
    /\ \E s \in DOMAIN words : TopByte(words[s]) = 255

(* ---------------------- calls of matrix_transpose ---------------------- *)

\* bytes the mixed inputs are drawn from
SampleBytes == {165, 60}

\* inputs of matrix_transpose: every array with a single bit set, every array
\* with a single bit clear, and every array of sample bytes
MtInputs ==
    {[j \in 0..7 |-> IF j = i THEN Pow2(k) ELSE 0] : i \in 0..7, k \in 0..7}
    \cup {[j \in 0..7 |-> IF j = i THEN 255 - Pow2(k) ELSE 255] : i \in 0..7, k \in 0..7}
    \cup [0..7 -> SampleBytes]

\* b = matrix_transpose(a)
MtCall ==
    /\ fnPc = "mt_in"
    /\ mtOut' = matrix_transpose(mtIn)
    /\ fnPc' = "mt_out"
    /\ UNCHANGED <<mtIn, mtBack, sys_hz, clock_divider>>
    /\ UNCHANGED <<smVars, obsVars, buildVars, drvVars>>

\* matrix_transpose(b)
MtCallAgain ==
    /\ fnPc = "mt_out"
    /\ mtBack' = matrix_transpose(mtOut)
    /\ fnPc' = "mt_back"
    /\ UNCHANGED <<mtIn, mtOut, sys_hz, clock_divider>>
    /\ UNCHANGED <<smVars, obsVars, buildVars, drvVars>>

InitTranspose ==
    /\ SmReset /\ WriteIdle
    /\ smEnabled = FALSE /\ constructed = FALSE /\ C = 1 /\ N = 1 /\ colors = <<>>
    /\ mtIn \in MtInputs /\ mtOut = <<>> /\ mtBack = <<>>
    /\ sys_hz = 0 /\ clock_divider = 0 /\ fnPc = "mt_in"

NextTranspose == MtCall \/ MtCallAgain

SpecTranspose == InitTranspose /\ [][NextTranspose]_vars

(* ------------------------------- C11 ----------------------------------- *)

\* C11: matrix_transpose is an involution: transposing the result of a
\* transposition gives back the input array, for every input.
C11_Involution == fnPc = "mt_back" => mtBack = mtIn

\* an input that its transposition changes has been transposed twice
C11_Witness == fnPc = "mt_back" /\ mtIn[2] = 165 /\ mtOut # mtIn /\ mtBack = mtIn

(* ------------------------------- C12 ----------------------------------- *)

\* C12 as stated: bit c of output[p] equals bit p of input[c], for all p, c
\* in 0..7, bit 0 the least significant.
C12_TransposeLsb ==
    fnPc \in {"mt_out", "mt_back"} =>
        \A p \in 0..7 : \A c \in 0..7 : ByteBit(mtOut[p], c) = ByteBit(mtIn[c], p)

\* C12 amended: bit c of output[p] equals bit 7-p of input[7-c], for all p, c
\* in 0..7, bit 0 the least significant: the transpose about the other
\* diagonal, which is the transpose when rows and bits are counted from the
\* most significant end.
C12_TransposeMsb ==
    fnPc \in {"mt_out", "mt_back"} =>
        \A p \in 0..7 : \A c \in 0..7 : ByteBit(mtOut[p], c) = ByteBit(mtIn[7 - c], 7 - p)

\* the array with only bit 0 of element 0 set has been transposed: the bit is
\* in bit 7 of element 7
C12_Witness ==
    /\ fnPc = "mt_out"
    /\ mtIn = [j \in 0..7 |-> IF j = 0 THEN 1 ELSE 0]
    /\ mtOut = [j \in 0..7 |-> IF j = 7 THEN 128 ELSE 0]

(* ------------------------------- C13 ----------------------------------- *)

\* passes of bitloop1 completed so far: one in every completed word cycle, and
\* one in the current cycle once bitloop2 has been entered
PassesDone == IF smPc \in {7, 8, 9} THEN sent + 1 ELSE sent

\* passes of bitloop1 whose eight OUTs have executed: the last OUT of a pass
\* precedes the jump that closes the pass
PassesShifted == PassesDone + (IF smPc = 6 /\ x = 0 THEN 1 ELSE 0)

\* C13: the bytes shifted out in successive passes of bitloop1 are the top
\* bytes of the pushed words, in the order pushed: the n-th pass shifts out
\* bits 31..24 of the n-th word, no word is skipped, repeated or split over
\* two passes; the words fetched are those of the passes shifted, and one more
\* while the OSR is not exhausted; the FIFO holds exactly the words not yet
\* fetched, although both the explicit pull and the autopull at 8 bits refill
\* the OSR.
C13_BytesInOrder ==
    /\ Len(bytesOut) = PassesDone
    /\ Len(bytesOut) <= Len(pushed)
    /\ \A n \in 1..Len(bytesOut) : bytesOut[n] = TopByte(MemOfU32(pushed[n]))
    /\ fetched = PassesShifted + (IF OsrEmpty THEN 0 ELSE 1)
    /\ fetched <= Len(pushed)
    /\ fifo = SubSeq(pushed, fetched + 1, Len(pushed))
    /\ \A k \in 1..Len(SelectSeq(wire, IsLoop1)) :
            /\ SelectSeq(wire, IsLoop1)[k].src = CycleWordNo
            /\ SelectSeq(wire, IsLoop1)[k].pos = k - 1

\* three passes have shifted out 0xA5, 0x5A, 0xA5 and a fourth word waits
C13_Witness ==
    /\ bytesOut = <<165, 90, 165>>
    /\ Len(pushed) = 4 /\ fetched = 3 /\ Len(fifo) = 1

(* ------------------------------- C14 ----------------------------------- *)

\* C14 as stated: strobe is asserted only by HEADER, before PULL: it is high
\* only while PULL is the next instruction or has just completed, and low
\* from the first instruction of bitloop0 to the last of bitloop2, the two
\* reloads of x between the loops included.
C14_StrobeOnlyInHeader == pinStrobe = 1 => smPc \in {1, 2}

\* C14 amended: strobe is asserted three times in a word cycle, by each
\* `set x, 7 side 2`: by HEADER (and held through PULL) and by the reloads of
\* x at the transitions bitloop0 to bitloop1 and bitloop1 to bitloop2; every
\* instruction inside the three loops deasserts it.  So strobe is high exactly
\* when the last instruction completed is one of the three, or PULL.
C14_StrobeAtEveryReload ==
    pinStrobe = 1 <=> (smPc = 1 \/ (smPc \in {2, 5, 8} /\ x = 7))

\* the reload of x between bitloop0 and bitloop1 has just executed in the
\* second word cycle: strobe is high
C14_Witness == smPc = 5 /\ x = 7 /\ pinStrobe = 1 /\ sent = 1

(* ------------------------------- C15 ----------------------------------- *)

InHeader == smPc = 1 /\ pinStrobe = 1

\* C15 as stated: whenever the state machine is in HEADER (strobe asserted,
\* before or while blocked at PULL), the data output is 1.
C15_HeaderDataHigh == InHeader => pinData = 1

\* C15 amended: whenever the state machine is in HEADER (strobe asserted,
\* before or while blocked at PULL), the data output is 0: HEADER loads x and
\* leaves the data pin at the level bitloop2 forced, or at its reset level.
C15_HeaderDataLow == InHeader => pinData = 0

\* blocked at PULL after two word cycles, strobe high and data low
C15_Witness == InHeader /\ stalled /\ sent = 2 /\ pinData = 0

(* ------------------------------- C17 ----------------------------------- *)

\* C17: clock and strobe are never high together; the data pin changes only
\* in an instruction whose side-set drives the clock low; and the data pin
\* keeps its level across every rising edge of the clock.
C17_PinDiscipline ==
    /\ [](~(pinClock = 1 /\ pinStrobe = 1))
    /\ [][pinData' # pinData => (Instr.side = 0 /\ pinClock' = 0)]_vars
    /\ [][(pinClock = 0 /\ pinClock' = 1) => pinData' = pinData]_vars

\* an OUT of bitloop1 has just raised the data pin from the level the last
\* rising edge carried, with the clock low
C17_Witness ==
    /\ smPc = 6 /\ pinClock = 0 /\ pinData = 1
    /\ wire # <<>> /\ wire[Len(wire)].loop = 1 /\ wire[Len(wire)].data = 0

(* ------------------------------- C18 ----------------------------------- *)

\* C18: a word cycle takes exactly 52 instruction cycles, stalled cycles not
\* counted: every completed cycle took 52, the current one has taken fewer,
\* and 52 is the factor of the clock setting, 800 kHz times the cycle length
\* being the state-machine clock.
C18_CycleLength ==
    /\ cycles < 52
    /\ sent > 0 => (cycleLen = 52 /\ 800 * cycleLen = SmKHz)

\* a word cycle that stalled at PULL has completed
C18_Witness == sent = 2 /\ cycleLen = 52 /\ cycles = 1 /\ stalled

(* ---------------- the state machine under a feed that goes on ---------- *)

\* the feed has pushed a whole batch, the state machine has drained it and
\* waits at PULL: the feed starts its next batch, and the record of words
\* pushed and shifted out starts again with it
FeedRestart ==
    /\ smEnabled
    /\ Len(pushed) = MaxPush /\ fifo = <<>> /\ stalled
    /\ pushed' = <<>> /\ bytesOut' = <<>> /\ wire' = <<>>
    /\ sent' = 0 /\ fetched' = 0 /\ osrSrc' = 0
    /\ dataSrc' = [src |-> 0, pos |-> 0]
    /\ UNCHANGED <<smVars, cycles, cycleLen, buildVars, drvVars, fnVars>>

NextFeed == NextPio \/ FeedRestart

\* the state machine executes an instruction in every clock cycle while it is
\* enabled, and the feed goes on supplying words
SpecFeed ==
    /\ InitPio /\ [][NextFeed]_vars
    /\ WF_vars(SmStep)
    /\ WF_vars(\E w \in ProducerWords : ProducerPush(w))
    /\ WF_vars(FeedRestart)

(* ------------------------------- C16 ----------------------------------- *)

\* a word pushed has not been shifted out yet
Behind == Len(bytesOut) < Len(pushed)

\* every word pushed has been shifted out by its pass of bitloop1, and its
\* word cycle is complete
CaughtUp ==
    /\ pushed # <<>> /\ Len(bytesOut) = Len(pushed) /\ sent = Len(pushed)
    /\ \A n \in 1..Len(pushed) : bytesOut[n] = TopByte(MemOfU32(pushed[n]))

\* C16: the program is cyclic and has no terminal state: an instruction can
\* always be executed; the last instruction of bitloop2 is followed by
\* another pass of bitloop2 or by HEADER; the state machine waits only at
\* PULL; and, the state machine running and the feed supplying words, HEADER
\* is reached again and again, and whenever a pushed word has not been
\* shifted out, eventually every pushed word has been.
C16_CyclicAndLive ==
    /\ [](ENABLED SmStep)
    /\ [][(smPc = WrapTop /\ smPc' # smPc) => smPc' \in {8, WrapTarget}]_vars
    /\ [][(smPc = WrapTop /\ x = 0 /\ smPc' # smPc) => smPc' = WrapTarget]_vars
    /\ [](stalled => Instr.op = "pull")
    /\ []<>(smPc = WrapTarget)
    /\ (Behind ~> CaughtUp)

\* the third word cycle has wrapped to HEADER with a fourth word waiting
C16_Witness == smPc = WrapTarget /\ sent = 3 /\ Len(bytesOut) = 3 /\ Len(fifo) = 1

(* ------------------------ new's clock setting -------------------------- *)

\* largest system clock drawn, in MHz
MaxSysMHz == 133

\* system clocks clk_sys_freq() may return, in Hz: whole MHz up to MaxSysMHz,
\* and each with 999 Hz and with half a MHz added
SysClocks == {m * 1000000 + o : m \in 1..MaxSysMHz, o \in {0, 999, 500000}}

\* U24F8: a u32 holding the value times 2^8
FracBits == 8

\* U24F8::from_num(n) for an integer n below 2^24: the bits of the fixed value
U24F8FromNum(n) == n * Pow2(FracBits)

\* (a * 2^n) / b and (a * 2^n) % b, by binary long division: no intermediate
\* value exceeds 2 * b
RECURSIVE ShlDivRem(_, _, _)
ShlDivRem(a, n, b) ==
    IF n = 0 THEN [q |-> a \div b, r |-> a % b]
    ELSE LET p == ShlDivRem(a, n - 1, b)
         IN  [q |-> 2 * p.q + (2 * p.r) \div b, r |-> (2 * p.r) % b]

\* a / b on U24F8 dividing whole numbers only
U24F8DivWhole(a, b) == Pow2(FracBits) * (a \div b)

\* a / b on U24F8: the bits of a widened and shifted left by the fraction
\* bits, divided by the bits of b, the quotient truncated
U24F8Div(a, b) == ShlDivRem(a, FracBits, b).q

\* cfg.clock_divider, as the bits of the U24F8
ClockDivider(hz) == U24F8Div(U24F8FromNum(hz \div 1000), U24F8FromNum(800 * 52))

\* the clock configuration made by new
SetClockDivider ==
    /\ fnPc = "clk_in"
    /\ clock_divider' = ClockDivider(sys_hz)
    /\ fnPc' = "div_set"
    /\ UNCHANGED <<mtIn, mtOut, mtBack, sys_hz>>
    /\ UNCHANGED <<smVars, obsVars, buildVars, drvVars>>

InitClock ==
    /\ SmReset /\ WriteIdle
    /\ smEnabled = FALSE /\ constructed = FALSE /\ C = 1 /\ N = 1 /\ colors = <<>>
    /\ mtIn = <<>> /\ mtOut = <<>> /\ mtBack = <<>>
    /\ sys_hz \in SysClocks /\ clock_divider = 0 /\ fnPc = "clk_in"

NextClock == SetClockDivider

SpecClock == InitClock /\ [][NextClock]_vars

(* ------------------------------- C19 ----------------------------------- *)

\* C19 as stated: the clock divider equals floor(kHz / (800 * 52)), a whole
\* number, where kHz is the system clock in Hz divided by 1000.
C19_DividerIsFloor ==
    fnPc = "div_set" =>
        clock_divider = Pow2(FracBits) * ((sys_hz \div 1000) \div (800 * 52))

\* C19 amended: the clock divider is the quotient kHz / (800 * 52) truncated
\* to 8 fraction bits, floor(256 * kHz / (800 * 52)) / 256, where kHz is the
\* system clock in Hz divided by 1000 and truncated: in units of 1/256 it is
\* the largest d with d * (800 * 52) <= 256 * kHz.
C19_DividerTruncatedTo8Bits ==
    fnPc = "div_set" =>
        \E kHz \in 0..MaxSysMHz * 1000 + 1000 :
            /\ kHz * 1000 <= sys_hz /\ sys_hz < (kHz + 1) * 1000
            /\ clock_divider * (800 * 52) <= 256 * kHz
            /\ 256 * kHz < (clock_divider + 1) * (800 * 52)

\* at 125 MHz the divider is 3 + 1/256
C19_Witness == fnPc = "div_set" /\ sys_hz = 125000000 /\ clock_divider = 3 * 256 + 1

====
